---- MODULE Spec2Model ----
(***************************************************************************)
(* Pomodoro timer and markdown log table of the BreakView panel            *)
(* (src/main.ts, the plugin whose classes start at line 1026).             *)
(*                                                                         *)
(* Text is modelled as a sequence of tokens.  A token is one character     *)
(* ("|", " ", "\n", "-", "#", ":", a digit, a letter) or one of the fixed   *)
(* Chinese words of the table ("StartTime", "分钟", ...), which the code only     *)
(* ever uses as whole literals.                                            *)
(***************************************************************************)
EXTENDS Integers, Sequences, FiniteSets, TLC

(***************************************************************************)
(* Bounds of the model.                                                    *)
(***************************************************************************)
\* largest value of a work/break setting, in minutes
MaxMinutes == 2
\* number of autoSavePomodoroLog calls a behaviour may make
MaxSaves == 1
\* number of rows a codec run may append to one file
MaxAppends == 2
\* the days the log tab is moved away from today, either way
MaxDays == 1
\* the months of the year that have log files
MaxMonths == 2

(***************************************************************************)
(* String primitives of JavaScript, on token sequences.                    *)
(***************************************************************************)
NL == "\n"
SP == " "
BAR == "|"

Digits == <<"0", "1", "2", "3", "4", "5", "6", "7", "8", "9">>

IsDigit(c) == \E i \in 1..10 : Digits[i] = c

DigitValue(c) == (CHOOSE i \in 1..10 : Digits[i] = c) - 1

IsSpace(c) == c \in {SP, NL}

Min(a, b) == IF a < b THEN a ELSE b

Max(a, b) == IF a > b THEN a ELSE b

\* String.prototype.includes
Includes(t, pat) ==
    \/ Len(pat) = 0
    \/ \E i \in 1..(Len(t) - Len(pat) + 1) :
           t[i] = pat[1] /\ SubSeq(t, i, i + Len(pat) - 1) = pat

\* String.prototype.startsWith
StartsWith(t, pat) ==
    Len(t) >= Len(pat) /\ SubSeq(t, 1, Len(pat)) = pat

\* String.prototype.endsWith
EndsWith(t, pat) ==
    Len(t) >= Len(pat) /\ SubSeq(t, Len(t) - Len(pat) + 1, Len(t)) = pat

\* String.prototype.trim
Trim(t) ==
    IF \A i \in 1..Len(t) : IsSpace(t[i]) THEN <<>>
    ELSE LET lo == CHOOSE i \in 1..Len(t) :
                       ~IsSpace(t[i]) /\ \A j \in 1..(i - 1) : IsSpace(t[j])
             hi == CHOOSE i \in 1..Len(t) :
                       ~IsSpace(t[i]) /\ \A j \in (i + 1)..Len(t) : IsSpace(t[j])
         IN  SubSeq(t, lo, hi)

RECURSIVE Split(_, _)
\* String.prototype.split with a one-character separator: the segments
\* between consecutive separators (one segment when there is none)
Split(t, sep) ==
    IF \A i \in 1..Len(t) : t[i] # sep THEN <<t>>
    ELSE LET p == CHOOSE i \in 1..Len(t) :
                      t[i] = sep /\ \A j \in 1..(i - 1) : t[j] # sep
         IN  <<SubSeq(t, 1, p - 1)>> \o Split(SubSeq(t, p + 1, Len(t)), sep)

RECURSIVE Join(_, _)
\* Array.prototype.join
Join(parts, sep) ==
    IF Len(parts) = 0 THEN <<>>
    ELSE IF Len(parts) = 1 THEN parts[1]
    ELSE parts[1] \o <<sep>> \o Join(Tail(parts), sep)

RECURSIVE Concat(_)
\* the concatenation of a sequence of texts (a template literal)
Concat(parts) ==
    IF Len(parts) = 0 THEN <<>> ELSE parts[1] \o Concat(Tail(parts))

RECURSIVE Rep(_, _)
Rep(c, n) == IF n = 0 THEN <<>> ELSE <<c>> \o Rep(c, n - 1)

\* line.split('|').map(col => col.trim()).filter(col => col)
Columns(line) ==
    LET raw == Split(line, BAR)
        trimmed == [i \in 1..Len(raw) |-> Trim(raw[i])]
    IN  SelectSeq(trimmed, LAMBDA col : Len(col) > 0)

\* the 0-based index findIndex returns for the set of 1-based hits, -1 for none
FirstIndex(hits) ==
    IF hits = {} THEN -1
    ELSE (CHOOSE i \in hits : \A j \in hits : i <= j) - 1

RECURSIVE NatToText(_)
NatToText(n) ==
    IF n < 10 THEN <<Digits[n + 1]>>
    ELSE NatToText(n \div 10) \o <<Digits[(n % 10) + 1]>>

\* String(n) of an integer
NumToText(n) == IF n < 0 THEN <<"-">> \o NatToText(-n) ELSE NatToText(n)

RECURSIVE DigitsToNat(_)
\* parseInt of a run of digits
DigitsToNat(t) ==
    IF Len(t) = 0 THEN 0
    ELSE 10 * DigitsToNat(SubSeq(t, 1, Len(t) - 1)) + DigitValue(t[Len(t)])

\* String(n).padStart(2, '0')
Pad2(n) == IF n < 10 THEN <<"0">> \o NatToText(n) ELSE NatToText(n)

(***************************************************************************)
(* Literals of the log table.                                              *)
(***************************************************************************)
\* '## 番茄钟记录'
HEADING == <<"#", "#", SP, "PomodoroRecord">>

\* '| 开始时间 | 结束时间 | 标签 | 备注 | 时长 |'
HEADER_ROW ==
    <<BAR, SP, "StartTime", SP, BAR, SP, "EndTime", SP, BAR, SP, "Tag", SP,
      BAR, SP, "Notes", SP, BAR, SP, "Duration", SP, BAR>>

\* '|----------|----------|------|------|------|'
SEPARATOR_ROW ==
    Concat(<< <<BAR>>, Rep("-", 10), <<BAR>>, Rep("-", 10), <<BAR>>, Rep("-", 6),
              <<BAR>>, Rep("-", 6), <<BAR>>, Rep("-", 6), <<BAR>> >>)

\* const tableHeader of saveLogEntry
tableHeader ==
    Concat(<< <<NL>>, HEADING, <<NL, NL>>, HEADER_ROW, <<NL>>, SEPARATOR_ROW, <<NL>> >>)

\* '自动记录的完整番茄钟', the notes autoSavePomodoroLog writes
AUTO_NOTES == <<"AutoNotes">>

\* '未选择标签', the tag autoSavePomodoroLog falls back to
NO_TAG == <<"NoTag">>

\* the value of a file that does not exist (getAbstractFileByPath returns null)
NoFile == <<"<no file>">>

(***************************************************************************)
(* Times of day.  A time is a number of seconds since local midnight.      *)
(***************************************************************************)
DaySeconds == 24 * 60 * 60

\* date.toTimeString().slice(0, 8): 'HH:MM:SS'
formatTimeForLog(sec) ==
    Concat(<< Pad2(sec \div 3600), <<":">>, Pad2((sec % 3600) \div 60), <<":">>,
              Pad2(sec % 60) >>)

\* the result of Math.round(NaN)
NaN == -1

\* Number(text) of one ':'-separated part; NaN unless blank or a run of digits
NumberOf(text) ==
    LET t == Trim(text)
    IN  IF Len(t) = 0 THEN 0
        ELSE IF \A i \in 1..Len(t) : IsDigit(t[i]) THEN DigitsToNat(t)
        ELSE NaN

\* minutes from start to end, an end before the start being on the next day
calculateTimeDifference(start, end) ==
    LET sp == Split(start, ":")
        ep == Split(end, ":")
        part(p, i) == IF i <= Len(p) THEN NumberOf(p[i]) ELSE NaN
        bad == \E i \in 1..3 : part(sp, i) = NaN \/ part(ep, i) = NaN
        s == part(sp, 1) * 3600 + part(sp, 2) * 60 + part(sp, 3)
        e0 == part(ep, 1) * 3600 + part(ep, 2) * 60 + part(ep, 3)
        e == IF e0 < s THEN e0 + DaySeconds ELSE e0
    IN  IF bad THEN NaN ELSE ((e - s) + 30) \div 60

(***************************************************************************)
(* saveLogEntry: the text it builds and the content it writes.             *)
(***************************************************************************)
\* `| ${a} | ${b} | ${c} |`, the text the duplicate check looks for
KeyText(startTime, endTime, tag) ==
    Concat(<< <<BAR, SP>>, startTime, <<SP, BAR, SP>>, endTime, <<SP, BAR, SP>>, tag,
              <<SP, BAR>> >>)

\* durationMinutes || this.plugin.settings.workTime
finalDurationMinutes(durationMinutes, workTime) ==
    IF durationMinutes # 0 THEN durationMinutes ELSE workTime

\* const logEntry: `| start | end | tag | notes | ${finalDurationMinutes}分钟 |`
logEntry(startTime, endTime, tag, notes, durationMinutes, workTime) ==
    Concat(<< <<BAR, SP>>, startTime, <<SP, BAR, SP>>, endTime, <<SP, BAR, SP>>, tag,
              <<SP, BAR, SP>>, notes, <<SP, BAR, SP>>,
              NumToText(finalDurationMinutes(durationMinutes, workTime)),
              <<"minutes", SP, BAR>> >>)

\* the content vault.create gives a new file: `# ${dateString}\n\n${tableHeader}`
newFileContent(dateString) ==
    Concat(<< <<"#", SP>>, dateString, <<NL, NL>>, tableHeader >>)

\* the content after the check for the heading (content of an existing file)
withTableHeader(content) ==
    IF ~Includes(content, HEADING)
    THEN content \o (IF EndsWith(content, <<NL>>) THEN <<>> ELSE <<NL>>) \o tableHeader
    ELSE content

\* lines.push(row) in the place of the splice
Splice_atEnd(lines, insertIndex, row) == lines \o <<row>>

\* lines.splice(insertIndex, 0, row): an index beyond the end inserts at the end
Splice(lines, insertIndex, row) ==
    LET at == Min(insertIndex, Len(lines))
    IN  SubSeq(lines, 1, at) \o <<row>> \o SubSeq(lines, at + 1, Len(lines))

\* the 0-based index of the first line that includes the table header row
headerIndexOf(lines) ==
    FirstIndex({i \in 1..Len(lines) : Includes(lines[i], HEADER_ROW)})

\* let hasDuplicate: a line from insertIndex on that starts with '|' and
\* includes the key text
hasDuplicate(lines, insertIndex, startTime, endTime, tag) ==
    \E i \in (insertIndex + 1)..Len(lines) :
        /\ StartsWith(Trim(lines[i]), <<BAR>>)
        /\ Includes(Trim(lines[i]), KeyText(startTime, endTime, tag))

\* the content after the row is added to the content read back
withLogEntry(content, startTime, endTime, tag, row) ==
    IF Includes(content, HEADER_ROW)
    THEN LET lines == Split(content, NL)
             insertIndex == headerIndexOf(lines) + 2
         IN  IF hasDuplicate(lines, insertIndex, startTime, endTime, tag)
             THEN content
             ELSE Join(Splice(lines, insertIndex, row), NL)
    ELSE content \o (IF EndsWith(content, <<NL>>) THEN <<>> ELSE <<NL>>) \o row

\* saveLogEntry run from its first file access to its last with no other
\* access to the file in between: the file's content afterwards
saveLogEntry(file, dateString, startTime, endTime, tag, notes, durationMinutes, workTime) ==
    LET content == IF file = NoFile THEN newFileContent(dateString)
                   ELSE withTableHeader(file)
    IN  withLogEntry(content, startTime, endTime, tag,
                     logEntry(startTime, endTime, tag, notes, durationMinutes, workTime))

\* getFileNameDate for the day d days from today, in the 'YYYY-MM-DD' format
\* (today taken to be 2025-01-15)
getFileNameDate(d) ==
    Concat(<< NumToText(2025), <<"-">>, Pad2(1), <<"-">>, Pad2(15 + d) >>)

(***************************************************************************)
(* parseLogFile                                                            *)
(***************************************************************************)
\* the 0-based index of the first line that includes the heading
tableStartIndexOf(lines) ==
    FirstIndex({i \in 1..Len(lines) : Includes(lines[i], HEADING)})

\* the last index of the run of digits that starts at i
DigitRunEnd(t, i) ==
    CHOOSE e \in i..Len(t) :
        /\ \A k \in i..e : IsDigit(t[k])
        /\ (e = Len(t) \/ ~IsDigit(t[e + 1]))

\* durationText.match(/(\d+)分钟/): the digits of the leftmost match, <<>> for none
durationMatch(t) ==
    LET starts == {i \in 1..Len(t) :
                     /\ IsDigit(t[i])
                     /\ DigitRunEnd(t, i) < Len(t)
                     /\ t[DigitRunEnd(t, i) + 1] = "minutes"}
    IN  IF starts = {} THEN <<>>
        ELSE LET i == CHOOSE k \in starts : \A j \in starts : k <= j
             IN  SubSeq(t, i, DigitRunEnd(t, i))

\* isDataRow without the test for the header row
isDataRow_noHeaderTest(rawLine) ==
    LET line == Trim(rawLine)
        columns == Columns(line)
    IN  /\ Len(line) > 0
        /\ StartsWith(line, <<BAR>>)
        /\ Len(columns) >= 5
        /\ ~Includes(columns[1], <<"-", "-", "-">>)

\* whether a line is one parseLogFile turns into an entry
isDataRow(rawLine) ==
    LET line == Trim(rawLine)
        columns == Columns(line)
    IN  /\ Len(line) > 0
        /\ StartsWith(line, <<BAR>>)
        /\ Len(columns) >= 5
        /\ columns[1] # <<"StartTime">>
        /\ ~Includes(columns[1], <<"-", "-", "-">>)

\* the entry of a data row
entryOf(rawLine) ==
    LET columns == Columns(Trim(rawLine))
        m == durationMatch(columns[5])
    IN  [startTime |-> columns[1], endTime |-> columns[2], tag |-> columns[3],
         duration |-> IF Len(m) > 0 THEN DigitsToNat(m)
                      ELSE calculateTimeDifference(columns[1], columns[2])]

RECURSIVE entriesFrom(_, _)
\* the loop of parseLogFile from the 1-based line i on
entriesFrom(lines, i) ==
    IF i > Len(lines) THEN <<>>
    ELSE (IF isDataRow(lines[i]) THEN <<entryOf(lines[i])>> ELSE <<>>)
         \o entriesFrom(lines, i + 1)

parseLogFile(content) ==
    LET lines == Split(content, NL)
        tableStartIndex == tableStartIndexOf(lines)
    IN  IF tableStartIndex = -1 THEN <<>>
        ELSE entriesFrom(lines, tableStartIndex + 3)

(***************************************************************************)
(* updateLogEntry                                                          *)
(***************************************************************************)
\* the 0-based index of the first row from tableStartIndex + 2 on whose first
\* three columns are the key, -1 for none
tableLineIndexOf(lines, tableStartIndex, startTime, endTime, tag) ==
    FirstIndex({i \in (tableStartIndex + 3)..Len(lines) :
                  /\ StartsWith(Trim(lines[i]), <<BAR>>)
                  /\ Len(Columns(Trim(lines[i]))) >= 5
                  /\ Columns(Trim(lines[i]))[1] = startTime
                  /\ Columns(Trim(lines[i]))[2] = endTime
                  /\ Columns(Trim(lines[i]))[3] = tag})

\* the rebuilt row: `| c0 | c1 | c2 | ${newNotes} | c4 |`
rebuiltLine(columns, newNotes) ==
    Concat(<< <<BAR, SP>>, columns[1], <<SP, BAR, SP>>, columns[2], <<SP, BAR, SP>>,
              columns[3], <<SP, BAR, SP>>, newNotes, <<SP, BAR, SP>>, columns[5],
              <<SP, BAR>> >>)

\* updateLogEntry on the file of the browsed date: the file afterwards and the
\* Notice shown ("none" when it returns without one)
updateLogEntry(file, startTime, endTime, tag, newNotes) ==
    IF file = NoFile THEN [file |-> file, notice |-> "fileMissing"]
    ELSE
    LET lines == Split(file, NL)
        tableStartIndex == tableStartIndexOf(lines)
        tableLineIndex ==
            tableLineIndexOf(lines, tableStartIndex, startTime, endTime, tag)
        columns == Columns(lines[tableLineIndex + 1])
    IN  IF tableStartIndex = -1 THEN [file |-> file, notice |-> "none"]
        ELSE IF tableLineIndex = -1 THEN [file |-> file, notice |-> "rowNotFound"]
        ELSE IF Len(columns) >= 5
        THEN [file |-> Join([lines EXCEPT ![tableLineIndex + 1] =
                                   rebuiltLine(columns, newNotes)], NL),
              notice |-> "updated"]
        ELSE [file |-> file, notice |-> "badFormat"]

(***************************************************************************)
(* State of the panel (class BreakView), of the plugin settings and of the *)
(* vault.                                                                  *)
(***************************************************************************)
VARIABLES
    settings,               \* plugin.settings: [workTime, breakTime], minutes
    isFocusMode,            \* BreakView.isFocusMode
    timeLeft,               \* BreakView.timeLeft, seconds
    isRunning,              \* BreakView.isRunning
    isProcessingCompletion, \* BreakView.isProcessingCompletion
    focusTime,              \* BreakView.focusTime
    breakTime,              \* BreakView.breakTime
    timerInterval,          \* BreakView.timerInterval: an interval id, 0 for null
    liveIntervals,          \* the ids of the intervals window.setInterval keeps firing
    currentTag,             \* BreakView.currentTag
    tagSelect,              \* the #tag-select element: [value, disabled]
    currentDate,            \* BreakView.currentDate, in days from today
    saves,                  \* the number of saveLogEntry calls made so far
    saved,                  \* the saveLogEntry call the last step made (NoSave
                            \* for none): its arguments, the day of the file it
                            \* is for and the time of the call
    notice,                 \* the Notice the last step showed, "none" for none
    lastOp,                 \* the handler the last step ran
    flipAt,                 \* timeLeft when the last step assigned isFocusMode,
                            \* -1 when it did not
    doc,                    \* codec runs: the content of the file operated on
    out,                    \* codec runs: the last operation and its result
    vault                   \* the folders and the other files of the vault:
                            \* [folders, files], two sets of paths

timerVars ==
    <<settings, isFocusMode, timeLeft, isRunning, isProcessingCompletion, focusTime,
      breakTime, timerInterval, liveIntervals, currentTag, tagSelect>>

codecVars == <<doc, out, vault>>

vars == <<timerVars, currentDate, saves, saved, notice, lastOp, flipAt, codecVars>>

(***************************************************************************)
(* Values the environment supplies.                                        *)
(***************************************************************************)
\* the tags of the <option> elements after the empty option of #tag-select
Tags == {<<"a">>}

\* the values the #tag-select element can take
TagOptions == {<<>>} \cup Tags

\* the times of day, in seconds, at which a countdown may reach zero
ClockSamples == {30, 9 * 3600 + 25 * 60}

\* the minutes the settings tab accepts (parseInt(value) > 0)
SettingValues == 1..MaxMinutes

(***************************************************************************)
(* The timer.                                                              *)
(***************************************************************************)
\* DEFAULT_SETTINGS.workTime
DEFAULT_workTime == 25

\* DEFAULT_SETTINGS.breakTime
DEFAULT_breakTime == 5

\* the minutes initializeTimerValues takes from a setting: the default for a
\* value <= 0, and at least 1
minutesOf(value, default) ==
    Max(1, IF value <= 0 THEN default ELSE value)

\* initializeTimerValues with the two settings taken for each other
initializeTimerValues_swapped(focus, s, oldFocusTime, oldBreakTime) ==
    IF focus
    THEN [focusTime |-> minutesOf(s.breakTime, DEFAULT_breakTime),
          breakTime |-> oldBreakTime,
          timeLeft  |-> minutesOf(s.breakTime, DEFAULT_breakTime) * 60]
    ELSE [focusTime |-> oldFocusTime,
          breakTime |-> minutesOf(s.workTime, DEFAULT_workTime),
          timeLeft  |-> minutesOf(s.workTime, DEFAULT_workTime) * 60]

\* initializeTimerValues: the fields it assigns, from the mode and the settings
initializeTimerValues(focus, s, oldFocusTime, oldBreakTime) ==
    IF focus
    THEN [focusTime |-> minutesOf(s.workTime, DEFAULT_workTime),
          breakTime |-> oldBreakTime,
          timeLeft  |-> minutesOf(s.workTime, DEFAULT_workTime) * 60]
    ELSE [focusTime |-> oldFocusTime,
          breakTime |-> minutesOf(s.breakTime, DEFAULT_breakTime),
          timeLeft  |-> minutesOf(s.breakTime, DEFAULT_breakTime) * 60]

\* the id window.setInterval returns: one no live interval has
freshInterval(live) == CHOOSE id \in 1..(Cardinality(live) + 1) : id \notin live

\* clearInterval(id)
clearInterval(live, id) == live \ {id}

\* the decrement with the sign of the step wrong
decremented_up(t) == Max(0, t + 1)

\* this.timeLeft = Math.max(0, this.timeLeft - 1)
decremented(t) == Max(0, t - 1)

\* the interval callback without its guard
callbackReturnsEarly_unguarded == FALSE

\* the guard of the interval callback without its test of isRunning
callbackReturnsEarly_runningIgnored == isProcessingCompletion

\* the guard of the interval callback (line 1650): it returns at once
callbackReturnsEarly == ~isRunning \/ isProcessingCompletion

\* the completion branch taken one second early
reachesZero_early(t) == t <= 1 /\ ~isProcessingCompletion

\* the condition of the completion branch (line 1655), t being the new timeLeft
reachesZero(t) == t = 0 /\ ~isProcessingCompletion

\* no call of saveLogEntry
NoSave ==
    [startTime |-> <<>>, endTime |-> <<>>, tag |-> <<>>, notes |-> <<>>,
     durationMinutes |-> 0, day |-> 0, now |-> 0]

\* autoSavePomodoroLog up to its call of saveLogEntry, and saveLogEntry up to
\* its first await: the call it makes when the Date is now
autoSavePomodoroLog(now) ==
    LET durationMinutes == IF isFocusMode THEN settings.workTime
                           ELSE settings.breakTime
        startSec == (now - durationMinutes * 60) % DaySeconds
    IN  [startTime |-> formatTimeForLog(startSec),
         endTime   |-> formatTimeForLog(now),
         tag       |-> IF currentTag = <<>> THEN NO_TAG ELSE currentTag,
         notes     |-> AUTO_NOTES,
         durationMinutes |-> durationMinutes,
         day       |-> currentDate,
         now       |-> now]

\* a start that goes on from the time left when there is less than a full
\* duration of it
valuesAtStart_resumed(focus, s, oldFocusTime, oldBreakTime, left) ==
    LET v == initializeTimerValues(focus, s, oldFocusTime, oldBreakTime)
    IN  [v EXCEPT !.timeLeft = IF 0 < left /\ left < @ THEN left ELSE @]

\* the call of initializeTimerValues in startTimer
valuesAtStart(focus, s, oldFocusTime, oldBreakTime, left) ==
    initializeTimerValues(focus, s, oldFocusTime, oldBreakTime)

\* a start that leaves isProcessingCompletion as it is
flagAtStart_kept(flag) == flag

\* this.isProcessingCompletion = false in startTimer
flagAtStart(flag) == FALSE

\* the tag check of startTimer applied in Break mode too
tagMissing_anyMode(focus, value) == value = <<>>

\* this.isFocusMode && !tagSelect.value
tagMissing(focus, value) == focus /\ value = <<>>

\* startTimer, reached from toggleTimer when the timer is not running
startTimer ==
    /\ ~isRunning
    /\ lastOp' = "startTimer"
    /\ flipAt' = -1
    /\ IF tagMissing(isFocusMode, tagSelect.value)
       THEN /\ notice' = "selectTagFirst"
            /\ saved' = NoSave
            /\ liveIntervals' = clearInterval(liveIntervals, timerInterval)
            /\ UNCHANGED <<settings, isFocusMode, timeLeft, isRunning,
                           isProcessingCompletion, focusTime, breakTime,
                           timerInterval, currentTag, tagSelect>>
       ELSE LET v == valuesAtStart(isFocusMode, settings, focusTime, breakTime, timeLeft)
                cleared == clearInterval(liveIntervals, timerInterval)
            IN  /\ isFocusMode => saves < MaxSaves
                /\ currentTag' = tagSelect.value
                /\ isRunning' = TRUE
                /\ focusTime' = v.focusTime
                /\ breakTime' = v.breakTime
                /\ timeLeft' = v.timeLeft
                /\ isProcessingCompletion' = flagAtStart(isProcessingCompletion)
                /\ tagSelect' = [tagSelect EXCEPT !.disabled = TRUE]
                /\ timerInterval' = freshInterval(cleared)
                /\ liveIntervals' = cleared \cup {freshInterval(cleared)}
                /\ notice' = "none"
                /\ saved' = NoSave
                /\ UNCHANGED <<settings, isFocusMode>>
    /\ UNCHANGED <<currentDate, saves, codecVars>>

\* the completion branch taking the path of a Focus session in both modes
completionSaves_always(focus) == TRUE

\* if (this.isFocusMode) of the completion branch: the path that calls
\* autoSavePomodoroLog
completionSaves(focus) == focus

\* the callback startTimer gives to window.setInterval
intervalCallback ==
    IF callbackReturnsEarly
    THEN /\ notice' = "none"
         /\ saved' = NoSave
         /\ flipAt' = -1
         /\ UNCHANGED <<timerVars, currentDate, saves>>
    ELSE
    LET t == decremented(timeLeft) IN
    IF reachesZero(t)
    THEN LET v == initializeTimerValues(~isFocusMode, settings, focusTime, breakTime)
         IN  /\ isProcessingCompletion' = TRUE
             /\ isRunning' = FALSE
             /\ liveIntervals' = clearInterval(liveIntervals, timerInterval)
             /\ timerInterval' = 0
             /\ IF completionSaves(isFocusMode)
                THEN /\ notice' = "focusEnded"
                     /\ \E now \in ClockSamples :
                            saved' = autoSavePomodoroLog(now)
                     /\ saves' = saves + 1
                ELSE /\ notice' = "breakEnded"
                     /\ saved' = NoSave
                     /\ saves' = saves
             /\ isFocusMode' = ~isFocusMode
             /\ focusTime' = v.focusTime
             /\ breakTime' = v.breakTime
             /\ timeLeft' = v.timeLeft
             /\ tagSelect' = [tagSelect EXCEPT !.disabled = FALSE]
             /\ flipAt' = t
             /\ UNCHANGED <<settings, currentTag, currentDate>>
    ELSE /\ timeLeft' = t
         /\ notice' = "none"
         /\ saved' = NoSave
         /\ flipAt' = -1
         /\ UNCHANGED <<settings, isFocusMode, isRunning, isProcessingCompletion,
                        focusTime, breakTime, timerInterval, liveIntervals,
                        currentTag, tagSelect, currentDate, saves>>

\* a live interval fires
Tick ==
    /\ liveIntervals # {}
    /\ lastOp' = "Tick"
    /\ intervalCallback
    /\ UNCHANGED codecVars

\* the callback runs once more although its interval has been cleared (the
\* re-entrant call the guard of line 1650 is there for)
LateTick ==
    /\ liveIntervals = {}
    /\ lastOp' = "LateTick"
    /\ intervalCallback
    /\ UNCHANGED codecVars

\* clearTimer without its clearInterval
clearTimer_keepsInterval ==
    /\ isRunning' = FALSE
    /\ UNCHANGED <<liveIntervals, timerInterval>>

\* clearTimer: the fields it assigns
clearTimer ==
    /\ isRunning' = FALSE
    /\ liveIntervals' = clearInterval(liveIntervals, timerInterval)
    /\ timerInterval' = 0

\* pauseTimer, reached from toggleTimer when the timer is running
pauseTimer ==
    /\ isRunning
    /\ lastOp' = "pauseTimer"
    /\ clearTimer
    /\ notice' = "paused"
    /\ saved' = NoSave
    /\ flipAt' = -1
    /\ UNCHANGED <<settings, isFocusMode, timeLeft, isProcessingCompletion, focusTime,
                   breakTime, currentTag, tagSelect, currentDate, saves, codecVars>>

\* skipBreak, the handler of the skip button
skipBreak ==
    LET v == initializeTimerValues(~isFocusMode, settings, focusTime, breakTime)
    IN  /\ lastOp' = "skipBreak"
        /\ clearTimer
        /\ isFocusMode' = ~isFocusMode
        /\ focusTime' = v.focusTime
        /\ breakTime' = v.breakTime
        /\ timeLeft' = v.timeLeft
        /\ flipAt' = timeLeft
        /\ notice' = IF isFocusMode THEN "skippedFocus" ELSE "skippedBreak"
        /\ saved' = NoSave
        /\ UNCHANGED <<settings, isProcessingCompletion, currentTag, tagSelect,
                       currentDate, saves, codecVars>>

\* the change listener of #tag-select; a disabled element takes no input
changeTag ==
    /\ ~tagSelect.disabled
    /\ lastOp' = "changeTag"
    /\ \E v \in TagOptions \ {tagSelect.value} :
        /\ tagSelect' = [tagSelect EXCEPT !.value = v]
        /\ currentTag' = v
    /\ notice' = "none"
    /\ saved' = NoSave
    /\ flipAt' = -1
    /\ UNCHANGED <<settings, isFocusMode, timeLeft, isRunning, isProcessingCompletion,
                   focusTime, breakTime, timerInterval, liveIntervals, currentDate,
                   saves, codecVars>>

\* the onChange handlers of the work time and break time settings
changeSettings ==
    /\ \E field \in {"workTime", "breakTime"}, num \in SettingValues :
        /\ settings[field] # num
        /\ settings' = [settings EXCEPT ![field] = num]
    /\ notice' = "settingUpdated"
    /\ saved' = NoSave
    /\ lastOp' = "changeSettings"
    /\ flipAt' = -1
    /\ UNCHANGED <<isFocusMode, timeLeft, isRunning, isProcessingCompletion, focusTime,
                   breakTime, timerInterval, liveIntervals, currentTag, tagSelect,
                   currentDate, saves, codecVars>>

\* a vault with no folder and no file besides the one in doc
NoVault == [folders |-> {}, files |-> {}]

\* the entry and the output of a codec run before any operation
NoEntry ==
    [startTime |-> <<>>, endTime |-> <<>>, tag |-> <<>>, notes |-> <<>>,
     durationMinutes |-> 0]

NoOutput ==
    [op |-> "none", before |-> NoFile, entry |-> NoEntry, newNotes |-> <<>>,
     notice |-> "none", entries |-> <<>>, appends |-> 0]

(***************************************************************************)
(* The panel after onOpen, with the settings loaded.  The log tab stays on *)
(* today, and the file accesses of the saveLogEntry calls are not part of  *)
(* this specification: saved holds the call a step made.                   *)
(***************************************************************************)
Init ==
    /\ settings \in [workTime : SettingValues, breakTime : SettingValues]
    /\ isFocusMode = TRUE
    /\ focusTime = minutesOf(settings.workTime, DEFAULT_workTime)
    /\ breakTime = settings.breakTime * 60
    /\ timeLeft = minutesOf(settings.workTime, DEFAULT_workTime) * 60
    /\ isRunning = FALSE
    /\ isProcessingCompletion = FALSE
    /\ timerInterval = 0
    /\ liveIntervals = {}
    /\ currentTag = <<>>
    /\ tagSelect = [value |-> <<>>, disabled |-> FALSE]
    /\ currentDate = 0
    /\ saves = 0
    /\ saved = NoSave
    /\ notice = "none"
    /\ lastOp = "init"
    /\ flipAt = -1
    /\ doc = NoFile
    /\ out = NoOutput
    /\ vault = NoVault

Next ==
    \/ startTimer
    \/ pauseTimer
    \/ skipBreak
    \/ Tick
    \/ LateTick
    \/ changeTag
    \/ changeSettings

Spec == Init /\ [][Next]_vars

(***************************************************************************)
(* Runs of the log file codec on one file: saveLogEntry (append),          *)
(* updateLogEntry (notes edit) and parseLogFile, for one session entry and *)
(* from the contents a diary file may hold.                                *)
(***************************************************************************)
\* a diary file that holds a note and no table
PlainNote == <<"n", "o", "t", "e", NL>>

\* a file with the heading and the four-column table of the earlier
\* saveLogEntry (line 675), which has no duration column
LegacyTable ==
    Concat(<< HEADING, <<NL, NL>>,
              <<BAR, SP, "StartTime", SP, BAR, SP, "EndTime", SP, BAR, SP, "Tag", SP,
                BAR, SP, "Notes", SP, BAR, NL>>,
              <<BAR>>, Rep("-", 10), <<BAR>>, Rep("-", 10), <<BAR>>, Rep("-", 6),
              <<BAR>>, Rep("-", 6), <<BAR, NL>> >>)

\* a table typed with no blank line after the heading and a note after it
TightTable ==
    Concat(<< HEADING, <<NL>>, HEADER_ROW, <<NL>>, SEPARATOR_ROW, <<NL, NL>>, PlainNote >>)

\* the times of day of the entries of a codec run
CodecTimes == {formatTimeForLog(23 * 3600 + 59 * 60 + 30), formatTimeForLog(30)}

CodecTags == {<<"a">>, <<"b">>}

CodecNotes == {AUTO_NOTES, <<>>, <<"x", BAR, "y">>}

CodecDurations == {0, 25}

\* the session entries of a codec run
Entries ==
    [startTime : CodecTimes, endTime : {formatTimeForLog(30)}, tag : CodecTags,
     notes : CodecNotes, durationMinutes : CodecDurations]

\* a file saveLogEntry has written one row to
OneRowTable ==
    saveLogEntry(NoFile, getFileNameDate(0), formatTimeForLog(30), formatTimeForLog(30),
                 <<"a">>, AUTO_NOTES, 25, DEFAULT_workTime)

\* a file in which a row follows the note below the table
SplitTable ==
    TightTable \o logEntry(formatTimeForLog(30), formatTimeForLog(30), <<"b">>,
                           AUTO_NOTES, 25, DEFAULT_workTime)

\* the contents a codec run starts from
InitialDocs ==
    {NoFile, <<>>, PlainNote, LegacyTable, TightTable, OneRowTable, SplitTable,
     newFileContent(getFileNameDate(0)), withTableHeader(PlainNote)}

\* saveLogEntry(startTime, endTime, tag, notes, durationMinutes) on the file
appendEntry ==
    LET e == out.entry
    IN  /\ out.appends < MaxAppends
        /\ doc' = saveLogEntry(doc, getFileNameDate(currentDate), e.startTime,
                               e.endTime, e.tag, e.notes, e.durationMinutes,
                               settings.workTime)
        /\ out' = [out EXCEPT !.op = "append", !.before = doc, !.notice = "saved",
                              !.newNotes = <<>>, !.entries = <<>>,
                              !.appends = out.appends + 1]
        /\ UNCHANGED <<timerVars, currentDate, saves, saved, notice, lastOp, flipAt, vault>>

\* updateLogEntry(startTime, endTime, tag, newNotes) on the file
updateEntryNotes ==
    \E newNotes \in CodecNotes :
        LET e == out.entry
            r == updateLogEntry(doc, e.startTime, e.endTime, e.tag, newNotes)
        IN  /\ doc' = r.file
            /\ out' = [out EXCEPT !.op = "update", !.before = doc,
                                  !.notice = r.notice, !.newNotes = newNotes,
                                  !.entries = <<>>]
            /\ UNCHANGED <<timerVars, currentDate, saves, saved, notice, lastOp, flipAt, vault>>

\* parseLogFile(content) on the content read from the file
parseEntries ==
    /\ doc # NoFile
    /\ doc' = doc
    /\ out' = [out EXCEPT !.op = "parse", !.before = doc, !.notice = "none",
                          !.newNotes = <<>>, !.entries = parseLogFile(doc)]
    /\ UNCHANGED <<timerVars, currentDate, saves, saved, notice, lastOp, flipAt, vault>>

InitCodec ==
    /\ settings \in [workTime : {MaxMinutes}, breakTime : {1}]
    /\ isFocusMode = TRUE
    /\ focusTime = minutesOf(settings.workTime, DEFAULT_workTime)
    /\ breakTime = settings.breakTime * 60
    /\ timeLeft = minutesOf(settings.workTime, DEFAULT_workTime) * 60
    /\ isRunning = FALSE
    /\ isProcessingCompletion = FALSE
    /\ timerInterval = 0
    /\ liveIntervals = {}
    /\ currentTag = <<>>
    /\ tagSelect = [value |-> <<>>, disabled |-> FALSE]
    /\ currentDate = 0
    /\ saves = 0
    /\ saved = NoSave
    /\ notice = "none"
    /\ lastOp = "init"
    /\ flipAt = -1
    /\ doc \in InitialDocs
    /\ out \in {[NoOutput EXCEPT !.entry = e] : e \in Entries}
    /\ vault = NoVault

NextCodec ==
    \/ appendEntry
    \/ updateEntryNotes
    \/ parseEntries

SpecCodec == InitCodec /\ [][NextCodec]_vars

(***************************************************************************)
(* Runs that append entries with distinct keys to one file, one            *)
(* saveLogEntry call after the other.                                      *)
(***************************************************************************)
\* the entries of such a run: two per start time and tag
OrderEntries ==
    [startTime : CodecTimes, endTime : {formatTimeForLog(30)}, tag : CodecTags,
     notes : {AUTO_NOTES}, durationMinutes : {1, 25}]

\* the contents such a run starts from: no file, files without the heading,
\* and files with the table
OrderDocs == InitialDocs \ {LegacyTable}

\* saveLogEntry for an entry of the run
appendNext ==
    /\ out.appends < MaxAppends
    /\ \E e \in OrderEntries :
        /\ doc' = saveLogEntry(doc, getFileNameDate(currentDate), e.startTime,
                               e.endTime, e.tag, e.notes, e.durationMinutes,
                               settings.workTime)
        /\ out' = [out EXCEPT !.op = "append", !.before = doc, !.entry = e,
                              !.notice = "saved", !.appends = out.appends + 1]
    /\ UNCHANGED <<timerVars, currentDate, saves, saved, notice, lastOp, flipAt, vault>>

InitOrder ==
    /\ settings \in [workTime : {MaxMinutes}, breakTime : {1}]
    /\ isFocusMode = TRUE
    /\ focusTime = minutesOf(settings.workTime, DEFAULT_workTime)
    /\ breakTime = settings.breakTime * 60
    /\ timeLeft = minutesOf(settings.workTime, DEFAULT_workTime) * 60
    /\ isRunning = FALSE
    /\ isProcessingCompletion = FALSE
    /\ timerInterval = 0
    /\ liveIntervals = {}
    /\ currentTag = <<>>
    /\ tagSelect = [value |-> <<>>, disabled |-> FALSE]
    /\ currentDate = 0
    /\ saves = 0
    /\ saved = NoSave
    /\ notice = "none"
    /\ lastOp = "init"
    /\ flipAt = -1
    /\ doc \in OrderDocs
    /\ out = NoOutput
    /\ vault = NoVault

NextOrder == appendNext

SpecOrder == InitOrder /\ [][NextOrder]_vars

(***************************************************************************)
(* The settings: what loadSettings makes of the persisted data, and the    *)
(* panel opened with them.                                                 *)
(***************************************************************************)
\* the values a field of the persisted data may hold: none, a string, null,
\* or a number of minutes from -1 to MaxMinutes
PersistedValues ==
    {[type |-> t, value |-> 0] : t \in {"undefined", "string", "null"}}
    \cup {[type |-> "number", value |-> n] : n \in (-1)..MaxMinutes}

\* typeof v === 'number' ? v : default
loadedNumber(v, default) ==
    IF v.type = "number" THEN v.value ELSE default

\* the workTime and breakTime of this.settings after loadSettings
loadSettings(savedSettings) ==
    [workTime  |-> loadedNumber(savedSettings.workTime, DEFAULT_workTime),
     breakTime |-> loadedNumber(savedSettings.breakTime, DEFAULT_breakTime)]

\* the constructor of BreakView followed by onOpen, which calls
\* initializeTimerValues
openView ==
    LET v == initializeTimerValues(TRUE, settings, settings.workTime * 60,
                                   settings.breakTime * 60)
    IN  /\ lastOp' = "openView"
        /\ isFocusMode' = TRUE
        /\ isRunning' = FALSE
        /\ isProcessingCompletion' = FALSE
        /\ focusTime' = v.focusTime
        /\ breakTime' = v.breakTime
        /\ timeLeft' = v.timeLeft
        /\ timerInterval' = 0
        /\ liveIntervals' = {}
        /\ currentTag' = <<>>
        /\ tagSelect' = [value |-> <<>>, disabled |-> FALSE]
        /\ notice' = "none"
        /\ saved' = NoSave
        /\ flipAt' = -1
        /\ UNCHANGED <<settings, currentDate, saves, codecVars>>

\* the plugin after onload has run loadSettings on the persisted data (held
\* in doc), before a panel is opened
InitSettings ==
    /\ doc \in [workTime : PersistedValues, breakTime : PersistedValues]
    /\ settings = loadSettings(doc)
    /\ lastOp = "loadSettings"
    /\ isFocusMode = TRUE
    /\ focusTime = 0
    /\ breakTime = 0
    /\ timeLeft = 0
    /\ isRunning = FALSE
    /\ isProcessingCompletion = FALSE
    /\ timerInterval = 0
    /\ liveIntervals = {}
    /\ currentTag = <<>>
    /\ tagSelect = [value |-> <<>>, disabled |-> FALSE]
    /\ currentDate = 0
    /\ saves = 0
    /\ saved = NoSave
    /\ notice = "none"
    /\ flipAt = -1
    /\ out = NoOutput
    /\ vault = NoVault

NextSettings ==
    \/ openView
    \/ changeSettings

SpecSettings == InitSettings /\ [][NextSettings]_vars

(***************************************************************************)
(* The folders of the vault: createDirectoryRecursive.                     *)
(***************************************************************************)
SLASH == "/"

\* the folder of the log files of 2025-01 under the diary path 'd'
LogDirParts == << <<"d">>, <<"2", "0", "2", "5">>, <<"0", "1">> >>

\* the path of the first k parts
PrefixPath(parts, k) == Join(SubSeq(parts, 1, k), SLASH)

\* vault.getAbstractFileByPath(path): "folder" for a TFolder, "file" for a
\* file, "none" for null
getAbstractFileByPath(v, path) ==
    IF path \in v.folders THEN "folder"
    ELSE IF path \in v.files THEN "file"
    ELSE "none"

\* path.split('/').filter(part => part)
pathParts(path) == SelectSeq(Split(path, SLASH), LAMBDA part : part # <<>>)

\* a walk that never takes a prefix for something other than a folder
isNotFolder_never(kind) == FALSE

\* !(dir instanceof TFolder), for a dir that is not null
isNotFolder(kind) == kind # "folder"

RECURSIVE createFrom(_, _, _, _)
\* the loop of createDirectoryRecursive from part k on; fault is the vault
\* operation that fails when called ("none": no operation fails)
createFrom(v, parts, k, fault) ==
    IF k > Len(parts) THEN [vault |-> v, error |-> "none"]
    ELSE LET currentPath == PrefixPath(parts, k)
             dir == getAbstractFileByPath(v, currentPath)
         IN  IF dir = "none"
             THEN IF fault = "createFolder"
                  THEN [vault |-> v, error |-> "createFolder"]
                  ELSE createFrom([v EXCEPT !.folders = @ \cup {currentPath}],
                                  parts, k + 1, fault)
             ELSE IF isNotFolder(dir)
                  THEN [vault |-> v, error |-> "notFolder"]
                  ELSE createFrom(v, parts, k + 1, fault)

\* createDirectoryRecursive(path): the vault afterwards and the error thrown
createDirectoryRecursive(v, path, fault) ==
    createFrom(v, pathParts(path), 1, fault)

\* the vaults: the first k folders of the log folder's path exist, the next
\* prefix may be a file, and a note may lie at the root
Vaults ==
    {[folders |-> {PrefixPath(LogDirParts, j) : j \in 1..k},
      files   |-> (IF f /\ k < Len(LogDirParts)
                   THEN {PrefixPath(LogDirParts, k + 1)} ELSE {})
                  \cup (IF n THEN {<<"n", ".", "m", "d">>} ELSE {})] :
        k \in 0..Len(LogDirParts), f \in BOOLEAN, n \in BOOLEAN}

\* the paths given to createDirectoryRecursive: the log folder, its parents,
\* and the log folder written with a leading and with a doubled slash
DirPaths ==
    {PrefixPath(LogDirParts, k) : k \in 1..Len(LogDirParts)}
    \cup {<<SLASH>> \o PrefixPath(LogDirParts, 3),
          LogDirParts[1] \o <<SLASH, SLASH>> \o LogDirParts[2]}

\* createDirectoryRecursive(path) on the vault
createDirectories ==
    LET r == createDirectoryRecursive(vault, out.entry, "none")
    IN  /\ out.appends < MaxAppends
        /\ vault' = r.vault
        /\ out' = [out EXCEPT !.op = "createDirectoryRecursive", !.before = vault,
                              !.notice = r.error, !.appends = out.appends + 1]
        /\ UNCHANGED <<timerVars, currentDate, saves, saved, notice, lastOp, flipAt, doc>>

InitDirs ==
    /\ settings = [workTime |-> DEFAULT_workTime, breakTime |-> DEFAULT_breakTime]
    /\ isFocusMode = TRUE
    /\ focusTime = DEFAULT_workTime
    /\ breakTime = DEFAULT_breakTime
    /\ timeLeft = DEFAULT_workTime * 60
    /\ isRunning = FALSE
    /\ isProcessingCompletion = FALSE
    /\ timerInterval = 0
    /\ liveIntervals = {}
    /\ currentTag = <<>>
    /\ tagSelect = [value |-> <<>>, disabled |-> FALSE]
    /\ currentDate = 0
    /\ saves = 0
    /\ saved = NoSave
    /\ notice = "none"
    /\ lastOp = "init"
    /\ flipAt = -1
    /\ doc = NoFile
    /\ vault \in Vaults
    /\ out \in {[NoOutput EXCEPT !.entry = p] : p \in DirPaths}

NextDirs == createDirectories

SpecDirs == InitDirs /\ [][NextDirs]_vars

(***************************************************************************)
(* The log write of a completed Focus session on a vault whose operations  *)
(* may fail.                                                               *)
(***************************************************************************)
\* the vault operation that fails when it is called ("none": none fails)
Faults == {"none", "createFolder", "create", "read", "modify"}

\* a try block that starts after the folder of the file has been made
caught_afterDirectory(error) == error \notin {"notFolder", "createFolder"}

\* the try block of saveLogEntry: every error thrown in it is caught
caught(error) == TRUE

\* saveLogEntry on the vault v and the log file (NoFile when it does not
\* exist) under the fault: the vault and the file afterwards and the error
\* thrown inside the try block, "none" for none
saveLogEntryOn(v, file, call, workTime, fault) ==
    LET dirPath == PrefixPath(LogDirParts, Len(LogDirParts))
        d == IF getAbstractFileByPath(v, dirPath) = "none"
             THEN createDirectoryRecursive(v, dirPath, fault)
             ELSE [vault |-> v, error |-> "none"]
        \* vault.create fails when the file's folder is not there
        createError ==
            IF fault = "create" \/ getAbstractFileByPath(d.vault, dirPath) # "folder"
            THEN "create" ELSE "none"
        \* the read and the modify of the check for the heading
        headingError ==
            IF fault = "read" THEN "read"
            ELSE IF ~Includes(file, HEADING) /\ fault = "modify" THEN "modify"
            ELSE "none"
        content == IF file = NoFile THEN newFileContent(getFileNameDate(call.day))
                   ELSE withTableHeader(file)
        final == withLogEntry(content, call.startTime, call.endTime, call.tag,
                              logEntry(call.startTime, call.endTime, call.tag,
                                       call.notes, call.durationMinutes, workTime))
    IN  IF d.error # "none" THEN [vault |-> d.vault, file |-> file, error |-> d.error]
        ELSE IF file = NoFile /\ createError # "none"
             THEN [vault |-> d.vault, file |-> file, error |-> createError]
        ELSE IF file # NoFile /\ headingError # "none"
             THEN [vault |-> d.vault, file |-> file, error |-> headingError]
        ELSE IF fault = "read"
             THEN [vault |-> d.vault, file |-> content, error |-> "read"]
        ELSE IF final # content /\ fault = "modify"
             THEN [vault |-> d.vault, file |-> content, error |-> "modify"]
        ELSE [vault |-> d.vault, file |-> final, error |-> "none"]

\* the rest of autoSavePomodoroLog after the interval callback has returned:
\* saveLogEntry from its first vault access on, and the Notice of line 1759
saveLogEntryRuns ==
    /\ saved # NoSave
    /\ \E fault \in Faults :
          LET r == saveLogEntryOn(vault, doc, saved, settings.workTime, fault)
              escaped == r.error # "none" /\ ~caught(r.error)
          IN  /\ vault' = r.vault
              /\ doc' = r.file
              /\ out' = [op |-> "saveLogEntry", before |-> doc, entry |-> saved,
                         error |-> r.error, escaped |-> escaped,
                         notice |-> IF escaped THEN "none"
                                    ELSE IF r.error # "none" THEN "saveFailed"
                                    ELSE "saved"]
              /\ notice' = IF escaped THEN "none" ELSE "saved"
    /\ lastOp' = "saveLogEntry"
    /\ saved' = NoSave
    /\ flipAt' = -1
    /\ UNCHANGED <<timerVars, currentDate, saves>>

\* the log files the day may have
StoreDocs == {NoFile, PlainNote, TightTable}

\* the panel opened with workTime 1 and breakTime 1 on a vault
InitStore ==
    /\ settings = [workTime |-> 1, breakTime |-> 1]
    /\ isFocusMode = TRUE
    /\ focusTime = 1
    /\ breakTime = 60
    /\ timeLeft = 60
    /\ isRunning = FALSE
    /\ isProcessingCompletion = FALSE
    /\ timerInterval = 0
    /\ liveIntervals = {}
    /\ currentTag = <<>>
    /\ tagSelect = [value |-> <<>>, disabled |-> FALSE]
    /\ currentDate = 0
    /\ saves = 0
    /\ saved = NoSave
    /\ notice = "none"
    /\ lastOp = "init"
    /\ flipAt = -1
    /\ vault \in Vaults
    /\ doc \in StoreDocs
    /\ doc # NoFile =>
          getAbstractFileByPath(vault, PrefixPath(LogDirParts, Len(LogDirParts))) = "folder"
    /\ out = NoOutput

\* the asynchronous rest of a log write runs before the next event
NextStore ==
    \/ saveLogEntryRuns
    \/ saved = NoSave /\ startTimer
    \/ saved = NoSave /\ pauseTimer
    \/ saved = NoSave /\ Tick
    \/ saved = NoSave /\ changeTag

SpecStore == InitStore /\ [][NextStore]_vars

(***************************************************************************)
(* The timer with the date navigation of the log tab.                      *)
(***************************************************************************)
\* a click on .prev-date (d = -1) or on .next-date (d = 1)
moveDate(d) ==
    /\ currentDate + d \in (-MaxDays)..MaxDays
    /\ currentDate' = currentDate + d
    /\ lastOp' = IF d < 0 THEN "prevDate" ELSE "nextDate"
    /\ notice' = "none"
    /\ saved' = NoSave
    /\ flipAt' = -1
    /\ UNCHANGED <<timerVars, saves, codecVars>>

prevDate == moveDate(-1)

nextDate == moveDate(1)

\* a click on .today-date
todayDate ==
    /\ currentDate' = 0
    /\ lastOp' = "todayDate"
    /\ notice' = "none"
    /\ saved' = NoSave
    /\ flipAt' = -1
    /\ UNCHANGED <<timerVars, saves, codecVars>>

\* the panel opened with workTime 1 and breakTime 1, the log tab on today
InitDates ==
    /\ settings = [workTime |-> 1, breakTime |-> 1]
    /\ isFocusMode = TRUE
    /\ focusTime = 1
    /\ breakTime = 60
    /\ timeLeft = 60
    /\ isRunning = FALSE
    /\ isProcessingCompletion = FALSE
    /\ timerInterval = 0
    /\ liveIntervals = {}
    /\ currentTag = <<>>
    /\ tagSelect = [value |-> <<>>, disabled |-> FALSE]
    /\ currentDate = 0
    /\ saves = 0
    /\ saved = NoSave
    /\ notice = "none"
    /\ lastOp = "init"
    /\ flipAt = -1
    /\ doc = NoFile
    /\ out = NoOutput
    /\ vault = NoVault

NextDates ==
    \/ startTimer
    \/ pauseTimer
    \/ Tick
    \/ changeTag
    \/ prevDate
    \/ nextDate
    \/ todayDate

SpecDates == InitDates /\ [][NextDates]_vars

(***************************************************************************)
(* The timer with its interval firing for as long as it is live.           *)
(***************************************************************************)
NextLive ==
    \/ startTimer
    \/ pauseTimer
    \/ skipBreak
    \/ Tick
    \/ LateTick
    \/ changeTag

\* window.setInterval keeps calling the callback of a live interval
SpecLive == InitDates /\ [][NextLive]_vars /\ WF_vars(Tick)

(***************************************************************************)
(* The path of the log file of a date, as each reader and writer of it     *)
(* builds it.  A Date is a day d (days from 2025-01-15, local time), a     *)
(* local time of day sec in seconds, and the zone's offset tz from UTC in  *)
(* hours.                                                                  *)
(***************************************************************************)
\* getFileNameDate on the Date under the dateFormat setting
getFileNameDateIn(d, dateFormat) ==
    LET sep == IF dateFormat = "YYYY/MM/DD" THEN <<SLASH>> ELSE <<"-">>
    IN  Concat(<< NumToText(2025), sep, Pad2(1), sep, Pad2(15 + d) >>)

\* getFormattedDate (its last definition): date.toISOString().split('T')[0],
\* the day of the Date in UTC
getFormattedDate(d, sec, tz) ==
    LET utc == sec - tz * 3600
        shift == IF utc < 0 THEN -1 ELSE IF utc >= DaySeconds THEN 1 ELSE 0
    IN  Concat(<< NumToText(2025), <<"-">>, Pad2(1), <<"-">>, Pad2(15 + d + shift) >>)

\* `${normalizedPath}/${year}/${month}/${dateString}.md` under the diary path
\* 'd', year and month taken from the local date
logFilePath(dateString) ==
    Concat(<< PrefixPath(LogDirParts, Len(LogDirParts)), <<SLASH>>, dateString,
              <<".", "m", "d">> >>)

\* the paths saveLogEntry, loadLogEntries, updateLogEntry and
\* loadPeriodLogData build for the browsed Date
resolvePaths ==
    LET in == out.entry
    IN  /\ IF out.op = "paths" THEN out.day # currentDate ELSE TRUE
        /\ out' = [op |-> "paths", day |-> currentDate, entry |-> in,
                   save   |-> logFilePath(getFileNameDateIn(currentDate, in.dateFormat)),
                   view   |-> logFilePath(getFileNameDateIn(currentDate, in.dateFormat)),
                   update |-> logFilePath(getFormattedDate(currentDate, in.sec, in.tz)),
                   stats  |-> logFilePath(getFormattedDate(currentDate, in.sec, in.tz))]
        /\ lastOp' = "resolvePaths"
        /\ notice' = "none"
        /\ saved' = NoSave
        /\ flipAt' = -1
        /\ UNCHANGED <<timerVars, currentDate, saves, doc, vault>>

\* the panel with the time of day of its Date, the zone and the dateFormat
\* setting drawn
InitPaths ==
    /\ settings = [workTime |-> DEFAULT_workTime, breakTime |-> DEFAULT_breakTime]
    /\ isFocusMode = TRUE
    /\ focusTime = DEFAULT_workTime
    /\ breakTime = DEFAULT_breakTime
    /\ timeLeft = DEFAULT_workTime * 60
    /\ isRunning = FALSE
    /\ isProcessingCompletion = FALSE
    /\ timerInterval = 0
    /\ liveIntervals = {}
    /\ currentTag = <<>>
    /\ tagSelect = [value |-> <<>>, disabled |-> FALSE]
    /\ currentDate = 0
    /\ saves = 0
    /\ saved = NoSave
    /\ notice = "none"
    /\ lastOp = "init"
    /\ flipAt = -1
    /\ doc = NoFile
    /\ vault = NoVault
    /\ out \in {[NoOutput EXCEPT !.entry = in] :
                  in \in [sec : ClockSamples \cup {DaySeconds - 30},
                          tz : {-8, 0, 8},
                          dateFormat : {"YYYY-MM-DD", "YYYY/MM/DD"}]}

NextPaths ==
    \/ resolvePaths
    \/ prevDate
    \/ nextDate
    \/ todayDate

SpecPaths == InitPaths /\ [][NextPaths]_vars

(***************************************************************************)
(* The yearly statistics.  The log files of the year are given by the      *)
(* durations of the entries parseLogFile returns for each of them.         *)
(***************************************************************************)
\* no log file for the day
NoLog == <<-1>>

\* the days of a month that may have a log file
MonthDays == {1, 2}

RECURSIVE SumSeq(_)
\* entries.reduce((sum, entry) => sum + entry.duration, 0)
SumSeq(durations) ==
    IF Len(durations) = 0 THEN 0 ELSE Head(durations) + SumSeq(Tail(durations))

\* loadPeriodLogData for the 'yearly' period: the dates to load are the first
\* day of each month; a date whose file exists gives its parsed entries
loadPeriodLogData(logs) ==
    LET datesToLoad == [i \in 1..12 |-> [month |-> i, day |-> 1]]
        found(date) == /\ date.month \in DOMAIN logs
                       /\ logs[date.month][date.day] # NoLog
    IN  [i \in 1..12 |->
            IF found(datesToLoad[i])
            THEN [date |-> datesToLoad[i],
                  entries |-> logs[datesToLoad[i].month][datesToLoad[i].day]]
            ELSE [date |-> datesToLoad[i], entries |-> NoLog]]

\* calculateYearlyStats on the dates loaded
calculateYearlyStats(logData) ==
    LET loaded == {i \in 1..12 : logData[i].entries # NoLog}
        monthlyData == [m \in 1..12 |->
                           IF m \in loaded THEN SumSeq(logData[m].entries) ELSE 0]
    IN  [monthlyData  |-> monthlyData,
         totalMinutes |-> SumSeq([m \in 1..12 |-> monthlyData[m]]),
         sessionCount |-> SumSeq([m \in 1..12 |->
                              IF m \in loaded THEN Len(logData[m].entries) ELSE 0])]

\* loadYearlyStatistics: the statistics tab shows the year
loadYearlyStatistics ==
    /\ out.op # "yearly"
    /\ out' = [op |-> "yearly", entry |-> out.entry,
               stats |-> calculateYearlyStats(loadPeriodLogData(out.entry))]
    /\ lastOp' = "loadYearlyStatistics"
    /\ notice' = "none"
    /\ saved' = NoSave
    /\ flipAt' = -1
    /\ UNCHANGED <<timerVars, currentDate, saves, doc, vault>>

\* the panel in a vault with the log files of the first MaxMonths months
InitStats ==
    /\ settings = [workTime |-> DEFAULT_workTime, breakTime |-> DEFAULT_breakTime]
    /\ isFocusMode = TRUE
    /\ focusTime = DEFAULT_workTime
    /\ breakTime = DEFAULT_breakTime
    /\ timeLeft = DEFAULT_workTime * 60
    /\ isRunning = FALSE
    /\ isProcessingCompletion = FALSE
    /\ timerInterval = 0
    /\ liveIntervals = {}
    /\ currentTag = <<>>
    /\ tagSelect = [value |-> <<>>, disabled |-> FALSE]
    /\ currentDate = 0
    /\ saves = 0
    /\ saved = NoSave
    /\ notice = "none"
    /\ lastOp = "init"
    /\ flipAt = -1
    /\ doc = NoFile
    /\ vault = NoVault
    /\ out \in {[NoOutput EXCEPT !.entry = logs] :
                  logs \in [1..MaxMonths -> [MonthDays -> {NoLog, <<>>, <<25>>, <<25, 1>>}]]}

NextStats == loadYearlyStatistics

SpecStats == InitStats /\ [][NextStats]_vars

(***************************************************************************)
(* Two saveLogEntry calls in flight on the same file, each running its     *)
(* read (line 1811) and its modify (line 1831) as steps of their own.      *)
(***************************************************************************)
\* a modify that starts from the file as it is when the modify runs
contentToModify_fresh(read, file) == file

\* lines.join('\n') of line 1831: the lines come from the content the call
\* read at line 1811
contentToModify(read, file) == read

\* the two calls: entries with distinct keys
RaceEntries ==
    [startTime : CodecTimes, endTime : {formatTimeForLog(30)}, tag : CodecTags,
     notes : {AUTO_NOTES}, durationMinutes : {25}]

\* the await of vault.read(file) at line 1811 returns for call c
saveReads(c) ==
    /\ out.calls[c].pc = "start"
    /\ out' = [out EXCEPT !.calls[c].pc = "read", !.calls[c].content = doc]
    /\ doc' = doc
    /\ lastOp' = "saveReads"

\* call c goes on to its vault.modify, when it has seen no duplicate
saveModifies(c) ==
    LET e == out.calls[c].entry
        row == logEntry(e.startTime, e.endTime, e.tag, e.notes, e.durationMinutes,
                        settings.workTime)
        seen == out.calls[c].content
        modifies == withLogEntry(seen, e.startTime, e.endTime, e.tag, row) # seen
    IN  /\ out.calls[c].pc = "read"
        /\ doc' = IF modifies
                  THEN withLogEntry(contentToModify(seen, doc), e.startTime,
                                    e.endTime, e.tag, row)
                  ELSE doc
        /\ out' = [out EXCEPT !.calls[c].pc = "done",
                              !.last = IF modifies THEN c ELSE @]
        /\ lastOp' = "saveModifies"

\* a step of one of the two calls
saveStep ==
    /\ \E c \in {1, 2} : saveReads(c) \/ saveModifies(c)
    /\ notice' = "none"
    /\ saved' = NoSave
    /\ flipAt' = -1
    /\ UNCHANGED <<timerVars, currentDate, saves, vault>>

\* both calls made, on a file that has the table
InitRace ==
    /\ settings = [workTime |-> DEFAULT_workTime, breakTime |-> DEFAULT_breakTime]
    /\ isFocusMode = TRUE
    /\ focusTime = DEFAULT_workTime
    /\ breakTime = DEFAULT_breakTime
    /\ timeLeft = DEFAULT_workTime * 60
    /\ isRunning = FALSE
    /\ isProcessingCompletion = FALSE
    /\ timerInterval = 0
    /\ liveIntervals = {}
    /\ currentTag = <<>>
    /\ tagSelect = [value |-> <<>>, disabled |-> FALSE]
    /\ currentDate = 0
    /\ saves = 0
    /\ saved = NoSave
    /\ notice = "none"
    /\ lastOp = "init"
    /\ flipAt = -1
    /\ vault = NoVault
    /\ doc \in {TightTable, OneRowTable, newFileContent(getFileNameDate(0))}
    /\ \E e1 \in RaceEntries, e2 \in RaceEntries :
          /\ KeyText(e1.startTime, e1.endTime, e1.tag)
                 # KeyText(e2.startTime, e2.endTime, e2.tag)
          /\ out = [op |-> "race", before |-> doc, last |-> 0,
                    calls |-> << [pc |-> "start", content |-> <<>>, entry |-> e1],
                                 [pc |-> "start", content |-> <<>>, entry |-> e2] >>]

NextRace == saveStep

SpecRace == InitRace /\ [][NextRace]_vars

(***************************************************************************)
(* Properties of the timer, checked under Spec.                            *)
(***************************************************************************)
\* the full duration, in seconds, of the mode the panel is in
fullDuration(focus, s) == (IF focus THEN s.workTime ELSE s.breakTime) * 60

\* C1: the tick that brings timeLeft to 0, and no other tick, completes the
\* countdown: it flips the mode once and, in focus mode, makes one call of
\* saveLogEntry; a tick delivered while isProcessingCompletion is true changes
\* nothing of the panel and makes no call.
C1_OneCompletion ==
    [][lastOp' \in {"Tick", "LateTick"} =>
         /\ isProcessingCompletion => UNCHANGED <<timerVars, currentDate, saves>>
         /\ IF isRunning /\ ~isProcessingCompletion /\ timeLeft <= 1
            THEN /\ isFocusMode' = ~isFocusMode
                 /\ isProcessingCompletion'
                 /\ saves' = saves + (IF isFocusMode THEN 1 ELSE 0)
            ELSE /\ isFocusMode' = isFocusMode
                 /\ saves' = saves]_vars

\* C1 witness: a focus countdown has completed with its one call, and a tick
\* has been delivered after that while isProcessingCompletion is still true
C1_Witness ==
    /\ lastOp = "LateTick"
    /\ isProcessingCompletion
    /\ ~isFocusMode
    /\ saves = 1

\* C2: after a successful start in focus mode timeLeft is workTime * 60 and
\* the timer is running, for every pair of valid settings.
C2_StartSetsWorkSeconds ==
    (lastOp = "startTimer" /\ notice # "selectTagFirst" /\ isFocusMode) =>
        /\ timeLeft = settings.workTime * 60
        /\ isRunning

\* C2 witness: a successful focus start with a work time that differs from
\* the break time
C2_Witness ==
    /\ lastOp = "startTimer"
    /\ isRunning
    /\ isFocusMode
    /\ settings.workTime # settings.breakTime

\* C3: when the tick that ends a Focus session has run, the panel is in Break
\* mode and not running, and the row of the saveLogEntry call it made, written
\* to the day's file and read back, is the one row of the table: it starts W
\* minutes before the completion time, ends at the completion time, carries the
\* tag of the session, and its duration cell is "W分钟", for W the minutes the
\* session was started with and counted down.
C3_Original ==
    (lastOp = "Tick" /\ notice = "focusEnded") =>
        LET s == saved
            W == focusTime
            file == saveLogEntry(NoFile, getFileNameDate(s.day), s.startTime,
                                 s.endTime, s.tag, s.notes, s.durationMinutes,
                                 settings.workTime)
        IN  /\ ~isFocusMode
            /\ ~isRunning
            /\ parseLogFile(file) =
                   << [startTime |-> formatTimeForLog((s.now - W * 60) % DaySeconds),
                       endTime   |-> formatTimeForLog(s.now),
                       tag       |-> currentTag,
                       duration  |-> W] >>
            /\ Includes(file, <<SP>> \o NumToText(W) \o <<"minutes", SP, BAR>>)

\* C4: skip stops the tick, flips the mode, sets timeLeft to the full duration
\* of the new mode, leaves the timer not running and makes no call of
\* saveLogEntry.
C4_SkipFlipsAndStops ==
    [][lastOp' = "skipBreak" =>
         /\ liveIntervals' = {}
         /\ isFocusMode' = ~isFocusMode
         /\ timeLeft' = fullDuration(isFocusMode', settings')
         /\ ~isRunning'
         /\ saves' = saves]_vars

\* C4 witness: a skip in the middle of a running countdown
C4_Witness ==
    /\ lastOp = "skipBreak"
    /\ flipAt > 0
    /\ flipAt % 60 # 0

\* C9: in a step with the timer running and not completing before and after,
\* timeLeft does not increase.
C9_NonIncreasing ==
    [][(isRunning /\ ~isProcessingCompletion /\ isRunning' /\ ~isProcessingCompletion')
         => timeLeft' <= timeLeft]_vars

\* C9 witness: a tick has decremented timeLeft and the timer goes on running
C9_Witness ==
    /\ lastOp = "Tick"
    /\ isRunning
    /\ ~isProcessingCompletion
    /\ timeLeft < fullDuration(isFocusMode, [workTime |-> focusTime, breakTime |-> breakTime])

\* C10 as stated: in every step that changes the mode, timeLeft is 0 when the
\* mode is assigned.
C10_Original ==
    [][isFocusMode' # isFocusMode => flipAt' = 0]_vars

\* C10 amended: the mode changes only in skipBreak and in the tick that brings
\* timeLeft to 0; in that tick timeLeft is 0 when the mode is assigned.
C10_FlipAtZeroOrSkip ==
    [][isFocusMode' # isFocusMode =>
         \/ lastOp' = "skipBreak"
         \/ lastOp' = "Tick" /\ flipAt' = 0]_vars

\* C10 witness: a tick has flipped the mode at timeLeft 0
C10_Witness ==
    /\ lastOp = "Tick"
    /\ flipAt = 0
    /\ notice \in {"focusEnded", "breakEnded"}

(***************************************************************************)
(* Properties of the log file codec, checked under SpecCodec.              *)
(***************************************************************************)
\* the lines of the content that are rows with the key in their first three
\* columns
rowsWithKey(content, e) ==
    {i \in 1..Len(Split(content, NL)) :
        LET line == Trim(Split(content, NL)[i])
        IN  /\ StartsWith(line, <<BAR>>)
            /\ StartsWith(line, KeyText(e.startTime, e.endTime, e.tag))}

\* content that holds the heading, the header row and the separator row, and
\* no other table row
isEmptyTable(content) ==
    LET lines == Split(content, NL)
        rows == {i \in 1..Len(lines) : StartsWith(Trim(lines[i]), <<BAR>>)}
    IN  /\ content # NoFile
        /\ \E h \in 1..Len(lines) : lines[h] = HEADING
        /\ \E i, j \in rows :
              /\ lines[i] = HEADER_ROW
              /\ lines[j] = SEPARATOR_ROW
              /\ rows = {i, j}

\* C5: an append that follows an append of the entry with the same key leaves
\* the content as the first append left it, whatever the file held before.
C5_Original ==
    [][(out.op = "append" /\ out'.op = "append") => doc' = doc]_vars

\* C6: the content after an entry is appended to a missing or empty file
\* parses to exactly that entry (start time, end time, tag and duration).
C6_Original ==
    (out.op = "append" /\ out.before \in {NoFile, <<>>}) =>
        parseLogFile(doc) =
            << [startTime |-> out.entry.startTime,
                endTime   |-> out.entry.endTime,
                tag       |-> out.entry.tag,
                duration  |-> out.entry.durationMinutes] >>

\* C7: updateLogEntry with a key no row of the file has leaves the content as
\* it was and tells the user that nothing was found.
C7_Original ==
    (out.op = "update" /\ rowsWithKey(out.before, out.entry) = {}) =>
        /\ doc = out.before
        /\ out.notice \in {"rowNotFound", "fileMissing"}

\* C8: parseLogFile on content that holds the heading, the header row and the
\* separator row and no data row returns no entry.
C8_EmptyTableParsesEmpty ==
    (out.op = "parse" /\ isEmptyTable(out.before)) => out.entries = <<>>

\* a new day's file, whose header row lies in the range parseLogFile scans,
\* has been parsed
C8_Witness ==
    /\ out.op = "parse"
    /\ isEmptyTable(out.before)
    /\ out.before = newFileContent(getFileNameDate(currentDate))
    /\ out.entries = <<>>

(***************************************************************************)
(* Further properties of the timer, checked under Spec.                    *)
(***************************************************************************)
\* C11: startTimer in Focus mode with no tag selected shows the warning,
\* leaves no interval running and leaves isRunning, timeLeft, isFocusMode,
\* isProcessingCompletion and currentTag as they were; in Break mode
\* startTimer with no tag selected starts the countdown.
C11_StartNeedsTagInFocus ==
    [][(lastOp' = "startTimer" /\ tagSelect.value = <<>>) =>
          IF isFocusMode
          THEN /\ notice' = "selectTagFirst"
               /\ liveIntervals' = {}
               /\ UNCHANGED <<isRunning, timeLeft, isFocusMode,
                              isProcessingCompletion, currentTag>>
          ELSE /\ notice' # "selectTagFirst"
               /\ isRunning'
               /\ liveIntervals' # {}
               /\ isFocusMode' = isFocusMode]_vars

\* C11 witness: a start was refused in the idle state a completed Break left
\* (isProcessingCompletion still set)
C11_Witness ==
    /\ lastOp = "startTimer"
    /\ notice = "selectTagFirst"
    /\ isFocusMode
    /\ isProcessingCompletion
    /\ ~isRunning

\* C12: pauseTimer clears the interval and sets isRunning to false, leaving
\* timeLeft, isFocusMode and currentTag as they were; after a pause or a skip
\* no interval is left, and a callback run while the timer is not running
\* leaves timeLeft as it was.
C12_PauseStopsTicks ==
    [][/\ lastOp' = "pauseTimer" =>
             /\ liveIntervals' = {}
             /\ ~isRunning'
             /\ UNCHANGED <<timeLeft, isFocusMode, currentTag>>
       /\ lastOp' = "skipBreak" => (liveIntervals' = {} /\ ~isRunning')
       /\ (~isRunning /\ lastOp' \in {"Tick", "LateTick"}) => timeLeft' = timeLeft]_vars

\* C12 witness: the callback ran once more after a pause in mid-countdown
C12_Witness ==
    /\ lastOp = "LateTick"
    /\ ~isRunning
    /\ ~isProcessingCompletion
    /\ timeLeft % 60 # 0

\* C13: the tick that ends a Break countdown puts the panel in Focus mode with
\* timeLeft at workTime*60, not running, and makes no saveLogEntry call; in
\* every step the number of saveLogEntry calls grows by one when the step is
\* the tick that ends a Focus countdown and stays as it is otherwise.
C13_SavesCountFocusCompletions ==
    [][/\ (lastOp' = "Tick" /\ ~isFocusMode /\ isFocusMode') =>
             /\ flipAt' = 0
             /\ timeLeft' = settings'.workTime * 60
             /\ ~isRunning'
             /\ saved' = NoSave
             /\ saves' = saves
       /\ IF lastOp' = "Tick" /\ isFocusMode /\ ~isFocusMode'
          THEN saves' = saves + 1 /\ saved' # NoSave
          ELSE saves' = saves /\ saved' = NoSave]_vars

\* C13 witness: a Break countdown has ended after a Focus session was saved
C13_Witness ==
    /\ lastOp = "Tick"
    /\ notice = "breakEnded"
    /\ isFocusMode
    /\ saves = 1

\* C14: the tag select is disabled by the step that starts a Focus session,
\* and it is enabled again by the tick that ends the countdown and by the
\* pause of a running Focus session.
C14_Original ==
    [][/\ (lastOp' = "startTimer" /\ isRunning' /\ isFocusMode') => tagSelect'.disabled
       /\ (lastOp' = "Tick" /\ flipAt' = 0) => ~tagSelect'.disabled
       /\ (lastOp' = "pauseTimer" /\ isFocusMode) => ~tagSelect'.disabled]_vars

(***************************************************************************)
(* Further properties of the log file codec, checked under SpecCodec.      *)
(***************************************************************************)
\* the first line of the content that is a row with the key
firstRowWithKey(content, e) ==
    CHOOSE i \in rowsWithKey(content, e) : \A j \in rowsWithKey(content, e) : i <= j

\* the text between the last two '|' of a row: its duration cell
lastCell(line) ==
    LET parts == Split(Trim(line), BAR)
    IN  Trim(parts[Len(parts) - 1])

\* C15: updateLogEntry with a key some row has leaves every line but the
\* first row with that key as it was, and leaves that row's start time, end
\* time, tag and duration cell as they were.
C15_Original ==
    (out.op = "update" /\ rowsWithKey(out.before, out.entry) # {}) =>
        LET old == Split(out.before, NL)
            new == Split(doc, NL)
            i == firstRowWithKey(out.before, out.entry)
        IN  /\ Len(new) = Len(old)
            /\ \A j \in 1..Len(old) : j # i => new[j] = old[j]
            /\ StartsWith(Trim(new[i]),
                          KeyText(out.entry.startTime, out.entry.endTime, out.entry.tag))
            /\ lastCell(new[i]) = lastCell(old[i])

\* the rows of the content other than the header row and the separator row,
\* top to bottom
dataRows(content) ==
    SelectSeq(Split(content, NL),
              LAMBDA line : /\ StartsWith(Trim(line), <<BAR>>)
                            /\ line # HEADER_ROW
                            /\ line # SEPARATOR_ROW)

\* the line above the first data row of the content
lineAboveRows(content) ==
    LET lines == Split(content, NL)
        first == CHOOSE i \in 1..Len(lines) :
                     /\ lines[i] = dataRows(content)[1]
                     /\ \A j \in 1..(i - 1) : lines[j] # dataRows(content)[1]
    IN  lines[first - 1]

\* C16 (checked under SpecOrder): a saveLogEntry call for an entry whose key
\* no row has puts the entry's row right below the separator row and above
\* the rows that were there, which keep their order; so the rows of entries
\* appended one after the other read newest first, followed by the rows the
\* file had before.
C16_NewestFirst ==
    [][(out'.op = "append" /\ rowsWithKey(doc, out'.entry) = {}) =>
          LET e == out'.entry
          IN  /\ dataRows(doc') =
                     <<logEntry(e.startTime, e.endTime, e.tag, e.notes,
                                e.durationMinutes, settings.workTime)>>
                     \o (IF doc = NoFile THEN <<>> ELSE dataRows(doc))
              /\ lineAboveRows(doc') = SEPARATOR_ROW]_vars

\* C16 witness: two entries were appended to the file that had one row
C16_Witness ==
    /\ out.op = "append"
    /\ out.appends = 2
    /\ Len(dataRows(doc)) = 3
    /\ dataRows(doc)[3] = dataRows(OneRowTable)[1]

\* the 1-based index of the first line parseLogFile scans
scanStart(lines) == tableStartIndexOf(lines) + 3

\* the first scanned line that does not begin with '|' (one past the last
\* line when there is none)
firstGap(lines) ==
    LET gaps == {i \in scanStart(lines)..Len(lines) :
                    ~StartsWith(Trim(lines[i]), <<BAR>>)}
    IN  IF gaps = {} THEN Len(lines) + 1
        ELSE CHOOSE i \in gaps : \A j \in gaps : i <= j

\* C17: parseLogFile returns entries only for the rows above the first scanned
\* line that does not begin with '|'.
C17_Original ==
    (out.op = "parse" /\ Includes(out.before, HEADING)) =>
        LET lines == Split(out.before, NL)
        IN  Len(out.entries) =
                Cardinality({i \in scanStart(lines)..(firstGap(lines) - 1) :
                                isDataRow(lines[i])})

(***************************************************************************)
(* Properties of the settings, checked under SpecSettings.                 *)
(***************************************************************************)
\* C18: after loadSettings, whatever the persisted data holds, workTime and
\* breakTime are at least 1, and a field that is not a number has its
\* default.
C18_Original ==
    /\ settings.workTime >= 1
    /\ settings.breakTime >= 1
    /\ lastOp = "loadSettings" =>
          /\ doc.workTime.type # "number" => settings.workTime = DEFAULT_workTime
          /\ doc.breakTime.type # "number" => settings.breakTime = DEFAULT_breakTime

(***************************************************************************)
(* Properties of the vault's folders, checked under SpecDirs.              *)
(***************************************************************************)
\* the prefixes of a path, from the root down
prefixesOf(path) ==
    [k \in 1..Len(pathParts(path)) |-> PrefixPath(pathParts(path), k)]

\* C20: createDirectoryRecursive walks the prefixes of the path from the root
\* down.  When every prefix is a folder or missing it creates exactly the
\* missing ones and throws nothing; when a prefix is not a folder it throws
\* and creates no prefix from that one on; it never touches a folder or a
\* file that exists; and a call after a call that threw nothing creates
\* nothing.
C20_CreatesMissingPrefixes ==
    [][out'.op = "createDirectoryRecursive" =>
          LET p == prefixesOf(out.entry)
              blocked == {k \in 1..Len(p) : p[k] \in vault.files}
              upTo == IF blocked = {} THEN Len(p)
                      ELSE (CHOOSE k \in blocked : \A j \in blocked : k <= j) - 1
          IN  /\ vault'.files = vault.files
              /\ vault'.folders = vault.folders \cup {p[k] : k \in 1..upTo}
              /\ out'.notice = (IF blocked = {} THEN "none" ELSE "notFolder")
              /\ (out.op = "createDirectoryRecursive" /\ out.notice = "none")
                     => vault' = vault]_vars

\* a second call has run on a path whose first call created two folders
C20_Witness ==
    /\ out.op = "createDirectoryRecursive"
    /\ out.appends = 2
    /\ out.before = vault
    /\ Cardinality(vault.folders) = 3
    /\ \E v \in Vaults : Cardinality(v.folders) = 1 /\ v.files = vault.files

\* a call has thrown on a prefix that is a file, with a folder missing below
C20_WitnessNotFolder ==
    /\ out.op = "createDirectoryRecursive"
    /\ out.notice = "notFolder"
    /\ Len(pathParts(out.entry)) = 3
    /\ PrefixPath(LogDirParts, 2) \in vault.files

(***************************************************************************)
(* Properties of the log write on a failing vault, checked under           *)
(* SpecStore.                                                              *)
(***************************************************************************)
\* C19: the interval callback that completes a Focus session leaves the timer
\* in Break mode, stopped, with breakTime * 60 seconds left, and the log
\* write that follows it leaves the timer as it is whether it fails or not;
\* when a vault operation of that write fails (creating a folder, creating,
\* reading or modifying the file) the error is caught in saveLogEntry and the
\* failure Notice is shown.
C19_FailedSaveIsCaught ==
    [][/\ (lastOp' = "Tick" /\ saved' # NoSave) =>
              /\ ~isFocusMode'
              /\ ~isRunning'
              /\ timeLeft' = settings.breakTime * 60
       /\ lastOp' = "saveLogEntry" =>
              /\ UNCHANGED timerVars
              /\ ~isFocusMode /\ ~isRunning /\ timeLeft = settings.breakTime * 60
              /\ out'.error # "none" => (out'.notice = "saveFailed" /\ ~out'.escaped)
              /\ out'.error = "none" => out'.notice = "saved"]_vars

\* a log write has failed when it created a folder, after the Focus session
\* ended
C19_Witness ==
    /\ lastOp = "saveLogEntry"
    /\ out.error = "createFolder"
    /\ out.notice = "saveFailed"
    /\ ~isFocusMode /\ ~isRunning /\ timeLeft = 60
    /\ doc = NoFile

(***************************************************************************)
(* Starts, intervals and durations of the timer, checked under Spec.       *)
(***************************************************************************)
\* C22: every successful start, in either mode and also after a pause, sets
\* timeLeft to the full duration of the current mode as the settings give it
\* at that moment, whatever time was left, and sets the timer running.
C22_StartReloadsDuration ==
    [][(lastOp' = "startTimer" /\ notice' # "selectTagFirst") =>
          /\ timeLeft' = fullDuration(isFocusMode, settings)
          /\ isRunning'
          /\ isFocusMode' = isFocusMode
          /\ (lastOp = "pauseTimer" /\ timeLeft < fullDuration(isFocusMode, settings))
                 => timeLeft' > timeLeft]_vars

\* C22 witness: a Break countdown runs with its full duration after the
\* setting was changed, so a start has read the setting again
C22_Witness ==
    /\ lastOp = "startTimer"
    /\ isRunning
    /\ ~isFocusMode
    /\ timeLeft = settings.breakTime * 60
    /\ breakTime # DEFAULT_breakTime
    /\ settings.breakTime # settings.workTime

\* C24: at most one interval is live, and one is live exactly when the timer
\* is running.
C24_OneIntervalIffRunning ==
    /\ Cardinality(liveIntervals) <= 1
    /\ (liveIntervals # {}) <=> isRunning
    /\ liveIntervals = IF timerInterval = 0 THEN {} ELSE {timerInterval}

\* C24 witness: the timer runs again after a Focus session completed, with
\* part of the countdown done
C24_Witness ==
    /\ isRunning
    /\ Cardinality(liveIntervals) = 1
    /\ lastOp = "changeSettings"
    /\ timeLeft < fullDuration(isFocusMode, settings)
    /\ saves = 1

\* C25: timeLeft is never negative and never more than 60 times the minutes
\* that the last initializeTimerValues of the current mode stored (focusTime
\* in Focus mode, breakTime in Break mode).
C25_TimeLeftInRange ==
    /\ timeLeft >= 0
    /\ timeLeft <= 60 * (IF isFocusMode THEN focusTime ELSE breakTime)

\* C25 witness: a tick has counted the last second of a Break
C25_Witness ==
    /\ lastOp = "Tick"
    /\ flipAt = 0
    /\ isFocusMode
    /\ timeLeft = 60 * focusTime

\* C30: the duration written for a completed Focus session is the number of
\* minutes the session counted down, focusTime as its start stored it.
C30_Original ==
    (lastOp = "Tick" /\ saved # NoSave) =>
        finalDurationMinutes(saved.durationMinutes, settings.workTime) = focusTime

(***************************************************************************)
(* The day of the log write, checked under SpecDates.                      *)
(***************************************************************************)
\* C27: the saveLogEntry call of a completed Focus session is for the file of
\* the day of the completion (day 0, today), whatever day the log tab shows.
C27_Original ==
    (lastOp = "Tick" /\ saved # NoSave) => saved.day = 0

(***************************************************************************)
(* Progress of the countdown, checked under SpecLive.                      *)
(***************************************************************************)
\* C26: a successful start leaves isProcessingCompletion false, whatever it
\* was, and a running timer whose interval keeps firing completes (a tick
\* reaches 0 and flips the mode) unless it is paused or skipped.
C26_StartedTimerCompletes ==
    /\ [][(lastOp' = "startTimer" /\ isRunning') => ~isProcessingCompletion']_vars
    /\ isRunning ~> \/ lastOp = "Tick" /\ flipAt = 0 /\ isProcessingCompletion
                    \/ lastOp \in {"pauseTimer", "skipBreak"}

\* C26 witness: a Break, started while isProcessingCompletion was still true
\* from the completion of the Focus session, has completed
C26_Witness ==
    /\ lastOp = "Tick"
    /\ flipAt = 0
    /\ isFocusMode
    /\ saves = 1
    /\ isProcessingCompletion

(***************************************************************************)
(* Parsing after an edit of the notes, checked under SpecCodec.            *)
(***************************************************************************)
\* the entries of a sequence, as a set
entrySet(entries) == {entries[i] : i \in 1..Len(entries)}

\* C29: after an updateLogEntry that reported success, parseLogFile returns
\* as many entries as before, and among them every entry with the edited key
\* that it returned before (same start, end, tag and duration).
C29_Original ==
    (out.op = "update" /\ out.notice = "updated") =>
        LET was == parseLogFile(out.before)
            now == parseLogFile(doc)
        IN  /\ Len(now) = Len(was)
            /\ \A x \in entrySet(was) :
                  (x.startTime = out.entry.startTime /\ x.endTime = out.entry.endTime
                   /\ x.tag = out.entry.tag) => x \in entrySet(now)

(***************************************************************************)
(* The paths of a day's log file, checked under SpecPaths.                 *)
(***************************************************************************)
\* C28: for every Date and both dateFormat values, updateLogEntry and
\* loadPeriodLogData build the path that saveLogEntry and loadLogEntries
\* build.
C28_Original ==
    out.op = "paths" =>
        /\ out.update = out.save
        /\ out.stats = out.save
        /\ out.view = out.save

(***************************************************************************)
(* The yearly statistics, checked under SpecStats.                         *)
(***************************************************************************)
\* the minutes of all entries of all log files of month m
monthTotal(logs, m) ==
    IF m \notin DOMAIN logs THEN 0
    ELSE SumSeq([d \in 1..Cardinality(MonthDays) |->
                    IF logs[m][d] = NoLog THEN 0 ELSE SumSeq(logs[m][d])])

\* C21: in the yearly statistics the bucket of each month 1..12 is the sum of
\* the durations of all entries of the log files of all days of the month,
\* and the yearly total is the sum of the twelve buckets.
C21_Original ==
    out.op = "yearly" =>
        /\ \A m \in 1..12 : out.stats.monthlyData[m] = monthTotal(out.entry, m)
        /\ out.stats.totalMinutes
               = SumSeq([m \in 1..12 |-> out.stats.monthlyData[m]])

(***************************************************************************)
(* Overlapping log writes, checked under SpecRace.                         *)
(***************************************************************************)
\* the file has a row with the key of call c
rowPresent(c) ==
    LET e == out.calls[c].entry
    IN  Includes(doc, KeyText(e.startTime, e.endTime, e.tag))

\* both calls read the same content and neither saw a row with its key
bothReadFirst ==
    LET e1 == out.calls[1].entry
        e2 == out.calls[2].entry
    IN  /\ out.calls[1].content = out.calls[2].content
        /\ ~Includes(out.before, KeyText(e1.startTime, e1.endTime, e1.tag))
        /\ ~Includes(out.before, KeyText(e2.startTime, e2.endTime, e2.tag))

\* C23: nothing serializes two saveLogEntry calls on the same file.  When
\* both have read the file before either modifies it, the later modify
\* overwrites the earlier one and the file ends with the row of the later
\* call only; in every other interleaving it ends with both rows.
C23_OverlapLosesRow ==
    (out.calls[1].pc = "done" /\ out.calls[2].pc = "done") =>
        IF bothReadFirst
        THEN /\ out.last \in {1, 2}
             /\ rowPresent(out.last)
             /\ ~rowPresent(3 - out.last)
        ELSE rowPresent(1) /\ rowPresent(2)

\* C23 witness: both calls are done and the row of the first is not in the
\* file
C23_Witness ==
    /\ out.calls[1].pc = "done"
    /\ out.calls[2].pc = "done"
    /\ out.last = 2
    /\ rowPresent(2)
    /\ ~rowPresent(1)
    /\ Len(dataRows(doc)) = Len(dataRows(out.before)) + 1

====
